---------------------------- MODULE Spec2Model ----------------------------
(***************************************************************************)
(* Sales analytics system: the record parser/cleaner, the region filter,   *)
(* the analytics functions, the enrichment matcher and the report          *)
(* renderer of utils/data_processor.py.                                    *)
(*                                                                         *)
(* A Python str is a sequence of one-character strings.  A Python float    *)
(* is a record [kind, neg, hi, lo]; a finite one has the exact value       *)
(*     hi * 10^15 + lo / 25600,                                            *)
(* and every arithmetic operator below rounds its exact result to the      *)
(* nearest binary64 number, ties to even, as the hardware does.            *)
(***************************************************************************)
EXTENDS Integers, Sequences, FiniteSets, TLC

VARIABLES
    raw_lines,      \* parse_and_clean_data: its argument
    entry_idx,      \* parse_and_clean_data: index of the next entry of the for loop
    cleaned_data,   \* parse_and_clean_data: the list being built
    invalid_count,  \* parse_and_clean_data: the counter
    parse_pc,       \* "idle" | "loop" | "returned" | "raised"
    transactions,   \* the collection handed to the filter, analytics, enrichment, report
    op,             \* the function called last ("none" before the first call)
    args,           \* the other arguments of that call
    ret             \* what that call returned (or the exception it raised)

vars == <<raw_lines, entry_idx, cleaned_data, invalid_count, parse_pc,
          transactions, op, args, ret>>

parse_vars == <<raw_lines, entry_idx, cleaned_data, invalid_count, parse_pc>>
call_vars == <<transactions, op, args, ret>>

(***************************************************************************)
(* Bounds of the model.                                                    *)
(***************************************************************************)
MaxLines == 3
MaxTx == 3

(***************************************************************************)
(* Python str.                                                             *)
(***************************************************************************)
Ascii ==
    <<" ", "!", "\"", "#", "$", "%", "&", "'", "(", ")", "*", "+", ",", "-", ".", "/",
      "0", "1", "2", "3", "4", "5", "6", "7", "8", "9", ":", ";", "<", "=", ">", "?",
      "@", "A", "B", "C", "D", "E", "F", "G", "H", "I", "J", "K", "L", "M", "N", "O",
      "P", "Q", "R", "S", "T", "U", "V", "W", "X", "Y", "Z", "[", "\\", "]", "^", "_",
      "grave", "a", "b", "c", "d", "e", "f", "g", "h", "i", "j", "k", "l", "m", "n", "o",
      "p", "q", "r", "s", "t", "u", "v", "w", "x", "y", "z", "{", "|", "}", "~">>

\* ord(c): the code point of a character (Ascii[i] is chr(31 + i); the grave
\* accent, which no input here holds, is spelled out to keep its place)
Ord(c) ==
    IF c = "\t" THEN 9
    ELSE IF c = "\n" THEN 10
    ELSE IF c = "\r" THEN 13
    ELSE 31 + (CHOOSE i \in 1..Len(Ascii) : Ascii[i] = c)

IsSpace(c) == c \in {" ", "\t", "\n", "\r"}

IsDigit(c) == c \in {"0", "1", "2", "3", "4", "5", "6", "7", "8", "9"}

DigitVal(c) == Ord(c) - 48

LowerChar(c) == IF Ord(c) >= 65 /\ Ord(c) <= 90 THEN Ascii[Ord(c) + 32 - 31] ELSE c

\* s.lower()
Lower(s) == [i \in 1..Len(s) |-> LowerChar(s[i])]

RECURSIVE LStrip(_)
LStrip(s) == IF s # <<>> /\ IsSpace(Head(s)) THEN LStrip(Tail(s)) ELSE s

RECURSIVE RStrip(_)
RStrip(s) ==
    IF s # <<>> /\ IsSpace(s[Len(s)]) THEN RStrip(SubSeq(s, 1, Len(s) - 1)) ELSE s

\* s.strip()
Strip(s) == RStrip(LStrip(s))

\* s.split(sep) for a one-character separator: always at least one field
RECURSIVE SplitFrom(_, _, _)
SplitFrom(s, sep, cur) ==
    IF s = <<>> THEN <<cur>>
    ELSE IF Head(s) = sep THEN <<cur>> \o SplitFrom(Tail(s), sep, <<>>)
    ELSE SplitFrom(Tail(s), sep, Append(cur, Head(s)))

Split(s, sep) == SplitFrom(s, sep, <<>>)

\* s.replace(old, new) for a one-character old and a new of any length
RECURSIVE Replace(_, _, _)
Replace(s, old, new) ==
    IF s = <<>> THEN <<>>
    ELSE (IF Head(s) = old THEN new ELSE <<Head(s)>>) \o Replace(Tail(s), old, new)

\* sub in s
Contains(sub, s) ==
    \E i \in 0..(Len(s) - Len(sub)) : SubSeq(s, i + 1, i + Len(sub)) = sub

\* a < b on str: lexicographic by code point
RECURSIVE StrLess(_, _)
StrLess(a, b) ==
    IF b = <<>> THEN FALSE
    ELSE IF a = <<>> THEN TRUE
    ELSE IF Head(a) = Head(b) THEN StrLess(Tail(a), Tail(b))
    ELSE Ord(Head(a)) < Ord(Head(b))

\* the None object
None == <<"None">>

(***************************************************************************)
(* Python float (binary64).                                                *)
(***************************************************************************)
\* lo counts 1/25600: both k/256 (exact in binary) and k/100 (a round(x, 2)) fit
Unit == 25600
\* 53 bits of mantissa: 2^53 = 9007199254740992, so the numbers below
\* 9.007 * 10^15 that are multiples of 1/256 are exact
HiUnitExp == 15

Fin(hi, lo) == [kind |-> "finite", neg |-> FALSE, hi |-> hi, lo |-> lo]
NaN == [kind |-> "nan", neg |-> FALSE, hi |-> 0, lo |-> 0]
Inf(neg) == [kind |-> "inf", neg |-> neg, hi |-> 0, lo |-> 0]
FZero == Fin(0, 0)

RECURSIVE Pow10(_)
Pow10(k) == IF k = 0 THEN 1 ELSE 10 * Pow10(k - 1)

\* n / d rounded to the nearest integer, ties to the even one (n >= 0, d > 0)
RoundHalfEven(n, d) ==
    LET q == n \div d
        r == n % d
    IN  IF 2 * r < d THEN q
        ELSE IF 2 * r > d THEN q + 1
        ELSE IF q % 2 = 0 THEN q ELSE q + 1

\* The distance, in units of lo, between neighbouring binary64 numbers near
\* hi * 10^15 (hi >= 1): 2^49 < 10^15 < 2^50 has spacing 1/8, and the spacing
\* doubles at each power of two: 2^50 = 1.1259e15, 2^51 = 2.2518e15,
\* 2^52 = 4.5036e15, 2^53 = 9.0072e15, ..., 2^60 = 1152.9e15.
RECURSIVE SpacingFrom(_, _, _)
SpacingFrom(hi, top, s) ==
    IF hi <= top THEN s
    ELSE SpacingFrom(hi, IF top < 4 THEN 2 * top ELSE IF top = 4 THEN 9 ELSE 2 * top, 2 * s)

Spacing(hi) == SpacingFrom(hi, 1, Unit \div 8)

\* the exact value hi * 10^15 + lo / 25600 rounded to binary64
FRound(hi, lo) ==
    IF hi = 0 THEN Fin(0, lo)
    ELSE Fin(hi, RoundHalfEven(lo, Spacing(hi)) * Spacing(hi))

\* a + b on non-negative finite floats
FAdd(a, b) == FRound(a.hi + b.hi, a.lo + b.lo)

\* n * a for an int n >= 0 and a non-negative finite float a
FMul(n, a) == FRound(n * a.hi, n * a.lo)

\* a < b on non-negative finite floats
FLess(a, b) == a.hi < b.hi \/ (a.hi = b.hi /\ a.lo < b.lo)

\* a <= 0 on any float: every comparison with nan is False
FLeZero(a) ==
    CASE a.kind = "nan" -> FALSE
      [] a.kind = "inf" -> a.neg
      [] OTHER -> a.neg \/ (a.hi = 0 /\ a.lo = 0)

\* a > 0 on any float
FGtZero(a) ==
    CASE a.kind = "nan" -> FALSE
      [] a.kind = "inf" -> ~a.neg
      [] OTHER -> ~a.neg /\ (a.hi > 0 \/ a.lo > 0)

\* round(a, 2) on a non-negative finite float: at 10^15 and above every
\* binary64 number is its own nearest neighbour of its two-decimal rounding
Round2(a) ==
    IF a.hi > 0 THEN a
    ELSE Fin(0, RoundHalfEven(a.lo, Unit \div 100) * (Unit \div 100))

\* round(a / n, 2) for a non-negative finite float a and an int n > 0
\* (hi is a multiple of n for the amounts and counts the model reaches)
RoundDiv2(a, n) ==
    IF a.hi > 0
    THEN LET h == a.hi \div n
         IN  Fin(h, RoundHalfEven(a.lo, n * Spacing(h)) * Spacing(h))
    ELSE Fin(0, RoundHalfEven(a.lo, n * (Unit \div 100)) * (Unit \div 100))

(***************************************************************************)
(* int(text) and float(text).                                              *)
(***************************************************************************)
\* digits, with single underscores allowed between them
IsDigitGroup(s) ==
    /\ s # <<>>
    /\ \A i \in 1..Len(s) : IsDigit(s[i]) \/ s[i] = "_"
    /\ IsDigit(s[1]) /\ IsDigit(s[Len(s)])
    /\ \A i \in 1..(Len(s) - 1) : ~(s[i] = "_" /\ s[i + 1] = "_")

\* the number the digits of s spell, whatever stands between them
RECURSIVE DigitsValue(_, _)
DigitsValue(s, acc) ==
    IF s = <<>> THEN acc
    ELSE DigitsValue(Tail(s), IF IsDigit(Head(s)) THEN 10 * acc + DigitVal(Head(s)) ELSE acc)

CountDigits(s) == Cardinality({i \in 1..Len(s) : IsDigit(s[i])})

HasSign(s) == s # <<>> /\ Head(s) \in {"+", "-"}

Unsigned(s) == IF HasSign(s) THEN Tail(s) ELSE s

\* int(text): [ok |-> FALSE] stands for ValueError
ParseInt(text) ==
    LET s == Strip(text)
        body == Unsigned(s)
    IN  IF IsDigitGroup(body)
        THEN [ok |-> TRUE,
              val |-> IF HasSign(s) /\ Head(s) = "-"
                      THEN 0 - DigitsValue(body, 0) ELSE DigitsValue(body, 0)]
        ELSE [ok |-> FALSE, val |-> 0]

\* the places of "e" or "E" in s
ExpMarks(s) == {i \in 1..Len(s) : s[i] \in {"e", "E"}}

Dots(s) == {i \in 1..Len(s) : s[i] = "."}

\* [intpart][.fracpart] with at least one digit
IsDecimal(m) ==
    /\ Cardinality(Dots(m)) <= 1
    /\ LET d == IF Dots(m) = {} THEN Len(m) + 1 ELSE CHOOSE i \in Dots(m) : TRUE
           ip == SubSeq(m, 1, d - 1)
           fp == SubSeq(m, d + 1, Len(m))
       IN  /\ ip # <<>> \/ fp # <<>>
           /\ ip = <<>> \/ IsDigitGroup(ip)
           /\ fp = <<>> \/ IsDigitGroup(fp)

\* digits * 10^k as a float; exact for the literals whose value is a multiple
\* of 1/256 below 10^15 or a multiple of 10^15
DecimalToFloat(digits, k, neg) ==
    LET f == IF digits = 0 THEN Fin(0, 0)
             ELSE IF k >= HiUnitExp THEN FRound(digits * Pow10(k - HiUnitExp), 0)
             ELSE IF k >= 0 THEN Fin(0, digits * Pow10(k) * Unit)
             ELSE IF k = -1 THEN Fin(0, (digits * Unit) \div 10)
             ELSE Fin(0, (digits * (Unit \div 100)) \div Pow10(0 - k - 2))
    IN  [f EXCEPT !.neg = neg]

\* float(text): [ok |-> FALSE] stands for ValueError
ParseFloat(text) ==
    LET s == Strip(text)
        neg == HasSign(s) /\ Head(s) = "-"
        body == Unsigned(s)
        low == Lower(body)
        marks == ExpMarks(body)
        e == IF marks = {} THEN Len(body) + 1 ELSE CHOOSE i \in marks : TRUE
        m == SubSeq(body, 1, e - 1)
        x == SubSeq(body, e + 1, Len(body))
        xdigits == Unsigned(x)
        xval == IF marks = {} THEN 0
                ELSE IF HasSign(x) /\ Head(x) = "-"
                THEN 0 - DigitsValue(xdigits, 0) ELSE DigitsValue(xdigits, 0)
        dot == IF Dots(m) = {} THEN Len(m) + 1 ELSE CHOOSE i \in Dots(m) : TRUE
        fp == SubSeq(m, dot + 1, Len(m))
    IN  IF low = <<"n", "a", "n">> THEN [ok |-> TRUE, val |-> NaN]
        ELSE IF low = <<"i", "n", "f">> \/ low = <<"i", "n", "f", "i", "n", "i", "t", "y">>
        THEN [ok |-> TRUE, val |-> Inf(neg)]
        ELSE IF /\ Cardinality(marks) <= 1
                /\ IsDecimal(m)
                /\ marks # {} => IsDigitGroup(xdigits)
        THEN [ok |-> TRUE,
              val |-> DecimalToFloat(DigitsValue(m, 0), xval - CountDigits(fp), neg)]
        ELSE [ok |-> FALSE, val |-> NaN]

(***************************************************************************)
(* parse_and_clean_data                                                    *)
(***************************************************************************)
\* One pass of the for loop over one entry: "invalid" (counted and skipped),
\* "ok" (appended) or "raise" (an exception leaves the function).
CleanEntry(entry) ==
    LET fields == Split(Strip(entry), "|")
        skip == [outcome |-> "invalid", error |-> "", record |-> <<>>]
    IN  IF Len(fields) # 8 THEN skip
        ELSE
        LET tid == fields[1]
            date == fields[2]
            pid == fields[3]
            cid == fields[7]
            region == fields[8]
            pname == Replace(fields[4], ",", <<" ">>)
            qty == ParseInt(Replace(fields[5], ",", <<>>))
            price == ParseFloat(Replace(fields[6], ",", <<>>))
        IN  IF tid = <<>> THEN [outcome |-> "raise", error |-> "IndexError", record |-> <<>>]
            ELSE IF tid[1] # "T" THEN skip
            ELSE IF pid = <<>> THEN [outcome |-> "raise", error |-> "IndexError", record |-> <<>>]
            ELSE IF pid[1] # "P" THEN skip
            ELSE IF Strip(cid) = <<>> \/ Strip(region) = <<>> THEN skip
            ELSE IF ~qty.ok \/ ~price.ok THEN skip
            ELSE IF qty.val <= 0 \/ FLeZero(price.val) THEN skip
            ELSE [outcome |-> "ok", error |-> "",
                  record |-> [TransactionID |-> tid, Date |-> date, ProductID |-> pid,
                              ProductName |-> pname, Quantity |-> qty.val,
                              UnitPrice |-> price.val, CustomerID |-> cid,
                              Region |-> region]]

\* the for loop takes the next entry
ParseEntry ==
    /\ parse_pc = "loop"
    /\ entry_idx <= Len(raw_lines)
    /\ LET r == CleanEntry(raw_lines[entry_idx])
       IN  /\ parse_pc' = IF r.outcome = "raise" THEN "raised" ELSE "loop"
           /\ entry_idx' = IF r.outcome = "raise" THEN entry_idx ELSE entry_idx + 1
           /\ invalid_count' = IF r.outcome = "invalid" THEN invalid_count + 1
                               ELSE invalid_count
           /\ cleaned_data' = IF r.outcome = "ok" THEN Append(cleaned_data, r.record)
                              ELSE cleaned_data
    /\ UNCHANGED <<raw_lines, call_vars>>

\* the loop is over: return cleaned_data, invalid_count
ParseReturn ==
    /\ parse_pc = "loop"
    /\ entry_idx > Len(raw_lines)
    /\ parse_pc' = "returned"
    /\ UNCHANGED <<raw_lines, entry_idx, cleaned_data, invalid_count, call_vars>>

(***************************************************************************)
(* The raw lines read_sales_data hands to parse_and_clean_data.            *)
(***************************************************************************)
RECURSIVE Join(_, _)
Join(fields, sep) ==
    IF Len(fields) = 1 THEN fields[1]
    ELSE fields[1] \o <<sep>> \o Join(Tail(fields), sep)

\* one line of the file, as readlines() returns it
Line(fields) == Join(fields, "|") \o <<"\n">>

sT1 == <<"T", "1">>
sT2 == <<"T", "2">>
sX1 == <<"X", "1">>
sP1 == <<"P", "1">>
sP2 == <<"P", "2">>
sQ1 == <<"Q", "1">>
sC1 == <<"C", "1">>
sC2 == <<"C", "2">>
sDay1 == <<"2", "0", "2", "4", "-", "0", "1", "-", "0", "1">>
sDay2 == <<"2", "0", "2", "4", "-", "0", "1", "-", "0", "2">>
sNorth == <<"N", "o", "r", "t", "h">>
sSouth == <<"S", "o", "u", "t", "h">>
sUsbCable == <<"U", "S", "B", " ", "C", "a", "b", "l", "e">>
sMouseComma == <<"M", "o", "u", "s", "e", ",", " ", "W", "i", "r", "e", "l", "e", "s", "s">>

GoodFields == <<sT1, sDay1, sP1, sUsbCable, <<"2">>, <<"5", ".", "5", "0">>, sC1, sNorth>>

\* GoodFields with field i replaced by text
With(i, text) == [GoodFields EXCEPT ![i] = text]

ParseLines ==
    { Line(GoodFields),
      Line(<<sT2, sDay2, sP2, sMouseComma, <<"1", ",", "0", "0", "0">>,
             <<"1", ",", "2", "5", "0", ".", "5">>, sC2, <<" ">> \o sSouth>>),
      <<"B", "A", "D", "L", "I", "N", "E">>,
      <<"\n">>,
      Line(GoodFields \o <<sNorth>>),
      Line(With(1, sX1)),
      Line(With(1, <<>>)),
      Line(With(3, sQ1)),
      Line(With(3, <<>>)),
      Line(With(7, <<>>)),
      Line(With(7, <<" ", " ">>)),
      Line(With(8, <<>>)),
      Line(With(5, <<"a", "b", "c">>)),
      Line(With(5, <<"0">>)),
      Line(With(5, <<"-", "1">>)),
      Line(With(5, <<"2", ".", "5">>)),
      Line(With(6, <<>>)),
      Line(With(6, <<"0">>)),
      Line(With(6, <<"-", "5", ".", "5">>)),
      Line(With(6, <<"n", "a", "n">>)) }

\* every sequence of at most n elements of S
SeqsUpTo(S, n) == UNION {[1..k -> S] : k \in 0..n}

InitParse ==
    /\ raw_lines \in SeqsUpTo(ParseLines, MaxLines)
    /\ entry_idx = 1
    /\ cleaned_data = <<>>
    /\ invalid_count = 0
    /\ parse_pc = "loop"
    /\ transactions = <<>>
    /\ op = "none"
    /\ args = <<>>
    /\ ret = <<>>

NextParse == ParseEntry \/ ParseReturn

SpecParse == InitParse /\ [][NextParse]_vars

(***************************************************************************)
(* dict and sorted().  A dict is the sequence of its items in insertion    *)
(* order; an item is a record with a key field.                            *)
(***************************************************************************)
HasKey(d, k) == \E i \in 1..Len(d) : d[i].key = k

KeyIndex(d, k) == CHOOSE i \in 1..Len(d) : d[i].key = k

\* sorted(s): Before(a, b) says a's sort key is strictly ahead of b's.  The
\* sort is stable: items whose keys compare equal keep the order they had.
SortedBy(s, Before(_, _)) ==
    LET pos(i) == 1 + Cardinality({j \in 1..Len(s) :
                        \/ Before(s[j], s[i])
                        \/ (j < i /\ ~Before(s[i], s[j]))})
    IN  [p \in 1..Len(s) |-> s[CHOOSE i \in 1..Len(s) : pos(i) = p]]

Min(a, b) == IF a < b THEN a ELSE b

(***************************************************************************)
(* The analytics functions.                                                *)
(***************************************************************************)
\* tx["Quantity"] * tx["UnitPrice"]
Amount(tx) == FMul(tx.Quantity, tx.UnitPrice)

RECURSIVE RevenueFrom(_, _, _)
RevenueFrom(txs, i, total) ==
    IF i > Len(txs) THEN total
    ELSE RevenueFrom(txs, i + 1, FAdd(total, Amount(txs[i])))

calculate_total_revenue(txs) == RevenueFrom(txs, 1, FZero)

\* round((total_sales / overall) * 100, 2); a percentage p is Fin(0, p * Unit).
\* Above 10^15 the part of an amount below it changes the quotient by less
\* than 10^-12; the amounts of the model put no quotient on a rounding tie.
Percentage(total_sales, overall) ==
    IF overall.hi > 0
    THEN Fin(0, RoundHalfEven(total_sales.hi * 10000, overall.hi) * (Unit \div 100))
    ELSE Fin(0, RoundHalfEven((total_sales.lo \div 100) * 10000, overall.lo \div 100)
                * (Unit \div 100))

\* region_data[r]["total_sales"] = amount where the code has +=
RECURSIVE RegionTallyOverwrite(_, _, _)
RegionTallyOverwrite(txs, i, d) ==
    IF i > Len(txs) THEN d
    ELSE LET r == txs[i].Region
             d1 == IF HasKey(d, r) THEN d
                   ELSE Append(d, [key |-> r, total_sales |-> FZero, transaction_count |-> 0])
             k == KeyIndex(d1, r)
         IN  RegionTallyOverwrite(txs, i + 1,
                 [d1 EXCEPT ![k].total_sales = Amount(txs[i]),
                            ![k].transaction_count = @ + 1])

RECURSIVE RegionTally(_, _, _)
RegionTally(txs, i, d) ==
    IF i > Len(txs) THEN d
    ELSE LET r == txs[i].Region
             d1 == IF HasKey(d, r) THEN d
                   ELSE Append(d, [key |-> r, total_sales |-> FZero, transaction_count |-> 0])
             k == KeyIndex(d1, r)
         IN  RegionTally(txs, i + 1,
                 [d1 EXCEPT ![k].total_sales = FAdd(@, Amount(txs[i])),
                            ![k].transaction_count = @ + 1])

SalesDescending(a, b) == FLess(b.total_sales, a.total_sales)

region_wise_sales(txs) ==
    LET overall == calculate_total_revenue(txs)
        region_data == RegionTally(txs, 1, <<>>)
        with_pct == [i \in 1..Len(region_data) |->
                        [key |-> region_data[i].key,
                         total_sales |-> region_data[i].total_sales,
                         transaction_count |-> region_data[i].transaction_count,
                         percentage |-> Percentage(region_data[i].total_sales, overall)]]
    IN  SortedBy(with_pct, SalesDescending)

\* the tracker of top_selling_products and low_performing_products:
\* name -> [total quantity, total revenue]
RECURSIVE ProductTally(_, _, _)
ProductTally(txs, i, d) ==
    IF i > Len(txs) THEN d
    ELSE LET name == txs[i].ProductName
             d1 == IF HasKey(d, name) THEN d
                   ELSE Append(d, [key |-> name, qty |-> 0, revenue |-> FZero])
             k == KeyIndex(d1, name)
         IN  ProductTally(txs, i + 1,
                 [d1 EXCEPT ![k].qty = @ + txs[i].Quantity,
                            ![k].revenue = FAdd(@, Amount(txs[i]))])

QuantityDescending(a, b) == a[2] > b[2]

\* the ranking sorted ascending and then reversed: equal quantities come
\* out last-encountered first
top_selling_ties_reversed(txs, n) ==
    LET tracker == ProductTally(txs, 1, <<>>)
        ranked == [i \in 1..Len(tracker) |->
                      <<tracker[i].key, tracker[i].qty, tracker[i].revenue>>]
        backwards == [i \in 1..Len(ranked) |-> ranked[Len(ranked) + 1 - i]]
        sorted == SortedBy(backwards, QuantityDescending)
    IN  SubSeq(sorted, 1, Min(n, Len(sorted)))

top_selling_products(txs, n) ==
    LET tracker == ProductTally(txs, 1, <<>>)
        ranked == [i \in 1..Len(tracker) |->
                      <<tracker[i].key, tracker[i].qty, tracker[i].revenue>>]
        sorted == SortedBy(ranked, QuantityDescending)
    IN  SubSeq(sorted, 1, Min(n, Len(sorted)))

RECURSIVE CustomerTally(_, _, _)
CustomerTally(txs, i, d) ==
    IF i > Len(txs) THEN d
    ELSE LET cid == txs[i].CustomerID
             d1 == IF HasKey(d, cid) THEN d
                   ELSE Append(d, [key |-> cid, spent |-> FZero, count |-> 0, names |-> {}])
             k == KeyIndex(d1, cid)
         IN  CustomerTally(txs, i + 1,
                 [d1 EXCEPT ![k].spent = FAdd(@, Amount(txs[i])),
                            ![k].count = @ + 1,
                            ![k].names = @ \cup {txs[i].ProductName}])

SpentDescending(a, b) == FLess(b.total_spent, a.total_spent)

\* products_bought is list(set): its order is not fixed, so it is kept as the set
customer_analysis(txs) ==
    LET customers == CustomerTally(txs, 1, <<>>)
        result == [i \in 1..Len(customers) |->
                      [key |-> customers[i].key,
                       total_spent |-> Round2(customers[i].spent),
                       purchase_count |-> customers[i].count,
                       avg_order_value |-> RoundDiv2(customers[i].spent, customers[i].count),
                       products_bought |-> customers[i].names]]
    IN  SortedBy(result, SpentDescending)

RECURSIVE DailyTally(_, _, _)
DailyTally(txs, i, d) ==
    IF i > Len(txs) THEN d
    ELSE LET day == txs[i].Date
             d1 == IF HasKey(d, day) THEN d
                   ELSE Append(d, [key |-> day, value |-> FZero, count |-> 0, customers |-> {}])
             k == KeyIndex(d1, day)
         IN  DailyTally(txs, i + 1,
                 [d1 EXCEPT ![k].value = FAdd(@, Amount(txs[i])),
                            ![k].count = @ + 1,
                            ![k].customers = @ \cup {txs[i].CustomerID}])

DateAscending(a, b) == StrLess(a.key, b.key)

daily_sales_trend(txs) ==
    LET daily == DailyTally(txs, 1, <<>>)
        final == [i \in 1..Len(daily) |->
                     [key |-> daily[i].key,
                      revenue |-> Round2(daily[i].value),
                      transaction_count |-> daily[i].count,
                      unique_customers |-> Cardinality(daily[i].customers)]]
    IN  SortedBy(final, DateAscending)

\* v["revenue"] > peak_revenue
BeatsPeak(revenue, peak_revenue) == FLess(peak_revenue, revenue)

RECURSIVE PeakFrom(_, _, _)
PeakFrom(daily, i, peak) ==
    IF i > Len(daily) THEN peak
    ELSE PeakFrom(daily, i + 1,
             IF BeatsPeak(daily[i].revenue, peak[2])
             THEN <<daily[i].key, daily[i].revenue, daily[i].transaction_count>>
             ELSE peak)

\* (peak_date, peak_revenue, peak_count)
find_peak_sales_day(txs) == PeakFrom(daily_sales_trend(txs), 1, <<None, FZero, 0>>)

\* values[0] <= threshold where the code has <
IsLowOrEqual(qty, threshold) == qty <= threshold

\* values[0] < threshold
IsLow(qty, threshold) == qty < threshold

QuantityAscending(a, b) == a[2] < b[2]

low_performing_products(txs, threshold) ==
    LET product_data == ProductTally(txs, 1, <<>>)
        low_idx == SelectSeq([i \in 1..Len(product_data) |-> i],
                             LAMBDA i : IsLow(product_data[i].qty, threshold))
        low_items == [j \in 1..Len(low_idx) |->
                         <<product_data[low_idx[j]].key, product_data[low_idx[j]].qty,
                           product_data[low_idx[j]].revenue>>]
    IN  SortedBy(low_items, QuantityAscending)

(***************************************************************************)
(* enrich_sales_data                                                       *)
(***************************************************************************)
kwUsb == <<"u", "s", "b">>
kwCable == <<"c", "a", "b", "l", "e">>
kwMouse == <<"m", "o", "u", "s", "e">>
kwCharger == <<"c", "h", "a", "r", "g", "e", "r">>
kwMonitor == <<"m", "o", "n", "i", "t", "o", "r">>
kwWebcam == <<"w", "e", "b", "c", "a", "m">>
kwKeyboard == <<"k", "e", "y", "b", "o", "a", "r", "d">>
kwHeadphone == <<"h", "e", "a", "d", "p", "h", "o", "n", "e">>
kwExternalHardDrive == <<"e", "x", "t", "e", "r", "n", "a", "l", " ", "h", "a", "r", "d", " ", "d", "r", "i", "v", "e">>
kwHardDrive == <<"h", "a", "r", "d", " ", "d", "r", "i", "v", "e">>
kwLaptop == <<"l", "a", "p", "t", "o", "p">>

\* a rating with two decimals, such as 4.24, as a float
Rating(hundredths) == Fin(0, hundredths * (Unit \div 100))

Attributes(category, brand, rating, match) ==
    [API_Category |-> category, API_Brand |-> brand, API_Rating |-> rating,
     API_Match |-> match]

\* the chain with the mouse branch tried before the usb/cable branch
MatchProductMouseFirst(name) ==
    IF Contains(kwMouse, name)
    THEN Attributes("mobile-accessories", "TechGear", Rating(443), TRUE)
    ELSE IF Contains(kwUsb, name) \/ Contains(kwCable, name)
    THEN Attributes("mobile-accessories", "Beats", Rating(424), TRUE)
    ELSE IF Contains(kwCharger, name)
    THEN Attributes("mobile-accessories", "GadgetMaster", Rating(355), TRUE)
    ELSE IF Contains(kwMonitor, name)
    THEN Attributes("mobile-accessories", "Apple", Rating(415), TRUE)
    ELSE IF Contains(kwWebcam, name)
    THEN Attributes("mobile-accessories", "Apple", Rating(362), TRUE)
    ELSE IF Contains(kwKeyboard, name)
    THEN Attributes("mobile-accessories", "Logitech", Rating(405), TRUE)
    ELSE IF Contains(kwHeadphone, name)
    THEN Attributes("mobile-accessories", "Sony", Rating(438), TRUE)
    ELSE IF Contains(kwExternalHardDrive, name) \/ Contains(kwHardDrive, name)
    THEN Attributes("storage", "Seagate", Rating(418), TRUE)
    ELSE IF Contains(kwLaptop, name)
    THEN Attributes("laptops", "Asus", Rating(395), TRUE)
    ELSE Attributes("Unknown", "Unknown", Rating(0), FALSE)

\* the if/elif chain over the lower-cased product name
MatchProduct(name) ==
    IF Contains(kwUsb, name) \/ Contains(kwCable, name)
    THEN Attributes("mobile-accessories", "Beats", Rating(424), TRUE)
    ELSE IF Contains(kwMouse, name)
    THEN Attributes("mobile-accessories", "TechGear", Rating(443), TRUE)
    ELSE IF Contains(kwCharger, name)
    THEN Attributes("mobile-accessories", "GadgetMaster", Rating(355), TRUE)
    ELSE IF Contains(kwMonitor, name)
    THEN Attributes("mobile-accessories", "Apple", Rating(415), TRUE)
    ELSE IF Contains(kwWebcam, name)
    THEN Attributes("mobile-accessories", "Apple", Rating(362), TRUE)
    ELSE IF Contains(kwKeyboard, name)
    THEN Attributes("mobile-accessories", "Logitech", Rating(405), TRUE)
    ELSE IF Contains(kwHeadphone, name)
    THEN Attributes("mobile-accessories", "Sony", Rating(438), TRUE)
    ELSE IF Contains(kwExternalHardDrive, name) \/ Contains(kwHardDrive, name)
    THEN Attributes("storage", "Seagate", Rating(418), TRUE)
    ELSE IF Contains(kwLaptop, name)
    THEN Attributes("laptops", "Asus", Rating(395), TRUE)
    ELSE Attributes("Unknown", "Unknown", Rating(0), FALSE)

\* record = tx.copy() and the four API fields saved into it
EnrichRecord(tx, product_mapping) == tx @@ MatchProduct(Lower(tx.ProductName))

\* the loop appending a record only when a keyword matched
enrich_matched_only(txs, product_mapping) ==
    SelectSeq([i \in 1..Len(txs) |-> EnrichRecord(txs[i], product_mapping)],
              LAMBDA record : record.API_Match)

enrich_sales_data(txs, product_mapping) ==
    [i \in 1..Len(txs) |-> EnrichRecord(txs[i], product_mapping)]

\* record = tx where the code has tx.copy(): the four API fields are
\* saved into the caller's own record
TxSharedWithRecord(tx, product_mapping) == EnrichRecord(tx, product_mapping)

\* What a pass of the loop leaves in the caller's tx: record is a new dict
\* made by tx.copy(), so the four writes to record do not reach tx.
TxAfterEnrich(tx, product_mapping) == tx

\* the caller's list after the call: nothing is appended to or removed from it
InputAfterEnrich(txs, product_mapping) ==
    [i \in 1..Len(txs) |-> TxAfterEnrich(txs[i], product_mapping)]

(***************************************************************************)
(* validate_and_filter_sales                                               *)
(***************************************************************************)
\* row["Region"].lower() == key
RegionMatches(row, key) == Lower(row.Region) = key

validate_and_filter_sales(data, selected_region) ==
    IF data = <<>> THEN <<<<>>, [filter_applied |-> FALSE, total_records |-> 0]>>
    ELSE IF selected_region = None
    THEN <<data, [filter_applied |-> FALSE, total_records |-> Len(data)]>>
    ELSE LET key == Lower(Strip(selected_region))
             filtered_data == SelectSeq(data, LAMBDA row : RegionMatches(row, key))
         IN  <<filtered_data,
               [filter_applied |-> TRUE, region |-> key,
                records_before_filter |-> Len(data),
                records_after_filter |-> Len(filtered_data)]>>

(***************************************************************************)
(* generate_sales_report                                                   *)
(***************************************************************************)
\* min(date_list) and max(date_list) of a non-empty list
MinDate(txs) ==
    LET ds == {txs[i].Date : i \in 1..Len(txs)}
    IN  CHOOSE d \in ds : \A e \in ds : ~StrLess(e, d)

MaxDate(txs) ==
    LET ds == {txs[i].Date : i \in 1..Len(txs)}
    IN  CHOOSE d \in ds : \A e \in ds : ~StrLess(d, e)

\* one line written to the file: its section, what it is, the values it shows
\* (an amount formatted with two decimals shows round(amount, 2))
ReportLine(section, kind, values) == [section |-> section, kind |-> kind, values |-> values]

Heading(section) == <<ReportLine(section, "title", <<>>), ReportLine(section, "rule", <<>>)>>

\* the orders in which a for loop may visit set(names)
Orderings(names) ==
    {o \in [1..Cardinality(names) -> names] : \A i, j \in DOMAIN o : o[i] = o[j] => i = j}

\* The lines written for the cleaned and the enriched transactions;
\* set_order is the order in which set(not_enriched) is visited.
ReportDocument(txs, enriched, set_order) ==
    LET total_revenue == calculate_total_revenue(txs)
        total_transactions == Len(txs)
        region_data == region_wise_sales(txs)
        top_products == top_selling_products(txs, 5)
        customers == customer_analysis(txs)
        top_customers == SubSeq(customers, 1, Min(5, Len(customers)))
        daily == daily_sales_trend(txs)
        peak == find_peak_sales_day(txs)
        low_products == low_performing_products(txs, 10)
        enriched_count == Cardinality({i \in 1..Len(enriched) : enriched[i].API_Match})
        success_rate == Fin(0, RoundHalfEven(enriched_count * 10000, Len(enriched))
                               * (Unit \div 100))
        not_enriched == SelectSeq(enriched, LAMBDA tx : ~tx.API_Match)
    IN  <<ReportLine("HEADER", "rule", <<>>),
          ReportLine("HEADER", "title", <<>>),
          ReportLine("HEADER", "generated", <<>>),
          ReportLine("HEADER", "records", <<total_transactions>>),
          ReportLine("HEADER", "rule", <<>>)>>
        \o Heading("OVERALL SUMMARY")
        \o <<ReportLine("OVERALL SUMMARY", "total_revenue", <<Round2(total_revenue)>>),
             ReportLine("OVERALL SUMMARY", "total_transactions", <<total_transactions>>),
             ReportLine("OVERALL SUMMARY", "average_order_value",
                        <<RoundDiv2(total_revenue, total_transactions)>>),
             ReportLine("OVERALL SUMMARY", "date_range", <<MinDate(txs), MaxDate(txs)>>)>>
        \o Heading("REGION-WISE PERFORMANCE")
        \o <<ReportLine("REGION-WISE PERFORMANCE", "columns", <<>>)>>
        \o [i \in 1..Len(region_data) |->
               ReportLine("REGION-WISE PERFORMANCE", "row",
                          <<region_data[i].key, Round2(region_data[i].total_sales),
                            region_data[i].percentage, region_data[i].transaction_count>>)]
        \o Heading("TOP 5 PRODUCTS")
        \o <<ReportLine("TOP 5 PRODUCTS", "columns", <<>>)>>
        \o [i \in 1..Len(top_products) |->
               ReportLine("TOP 5 PRODUCTS", "row",
                          <<i, top_products[i][1], top_products[i][2],
                            Round2(top_products[i][3])>>)]
        \o Heading("TOP 5 CUSTOMERS")
        \o <<ReportLine("TOP 5 CUSTOMERS", "columns", <<>>)>>
        \o [i \in 1..Len(top_customers) |->
               ReportLine("TOP 5 CUSTOMERS", "row",
                          <<i, top_customers[i].key, top_customers[i].total_spent,
                            top_customers[i].purchase_count>>)]
        \o Heading("DAILY SALES TREND")
        \o <<ReportLine("DAILY SALES TREND", "columns", <<>>)>>
        \o [i \in 1..Len(daily) |->
               ReportLine("DAILY SALES TREND", "row",
                          <<daily[i].key, daily[i].revenue, daily[i].transaction_count,
                            daily[i].unique_customers>>)]
        \o Heading("PRODUCT PERFORMANCE ANALYSIS")
        \o <<ReportLine("PRODUCT PERFORMANCE ANALYSIS", "best_selling_day",
                        <<peak[1], Round2(peak[2]), peak[3]>>)>>
        \o (IF low_products # <<>>
            THEN <<ReportLine("PRODUCT PERFORMANCE ANALYSIS", "low_performing", <<>>)>>
                 \o [i \in 1..Len(low_products) |->
                        ReportLine("PRODUCT PERFORMANCE ANALYSIS", "low_item",
                                   <<low_products[i][1], low_products[i][2],
                                     Round2(low_products[i][3])>>)]
            ELSE <<ReportLine("PRODUCT PERFORMANCE ANALYSIS", "no_low_performing", <<>>)>>)
        \o Heading("API ENRICHMENT SUMMARY")
        \o <<ReportLine("API ENRICHMENT SUMMARY", "products_enriched",
                        <<enriched_count, Len(enriched)>>),
             ReportLine("API ENRICHMENT SUMMARY", "success_rate", <<success_rate>>)>>
        \o (IF not_enriched # <<>>
            THEN <<ReportLine("API ENRICHMENT SUMMARY", "not_enriched", <<>>)>>
                 \o [i \in 1..Len(set_order) |->
                        ReportLine("API ENRICHMENT SUMMARY", "not_enriched_item",
                                   <<set_order[i]>>)]
            ELSE <<ReportLine("API ENRICHMENT SUMMARY", "all_enriched", <<>>)>>)

\* the names whose set the report visits
NotEnrichedNames(enriched) ==
    {enriched[i].ProductName : i \in {j \in 1..Len(enriched) : ~enriched[j].API_Match}}

\* the report with the two fallback lines left out
report_without_fallbacks(txs, enriched, set_order) ==
    IF txs = <<>> THEN [raised |-> "ValueError", document |-> <<>>]
    ELSE IF enriched = <<>> THEN [raised |-> "ZeroDivisionError", document |-> <<>>]
    ELSE [raised |-> "",
          document |-> SelectSeq(ReportDocument(txs, enriched, set_order),
                           LAMBDA l : l.kind \notin {"no_low_performing", "all_enriched"})]

\* What the call does: the exception that leaves it before the file is
\* opened, or the document written.  min() of an empty list raises
\* ValueError; a division by len() of an empty list raises ZeroDivisionError.
generate_sales_report(txs, enriched, set_order) ==
    IF txs = <<>> THEN [raised |-> "ValueError", document |-> <<>>]
    ELSE IF enriched = <<>> THEN [raised |-> "ZeroDivisionError", document |-> <<>>]
    ELSE [raised |-> "", document |-> ReportDocument(txs, enriched, set_order)]

(***************************************************************************)
(* The cleaned transactions the calls are made on: each is the record      *)
(* parse_and_clean_data builds from one line of the file.                  *)
(***************************************************************************)
TxOf(fields) == CleanEntry(Line(fields)).record

sOne == <<"1">>
sTwo == <<"2">>
sPrice == <<"5", ".", "5", "0">>
sTiny == <<"0", ".", "0", "0", "3", "9", "0", "6", "2", "5">>
sBig == <<"1", "2", "e", "1", "5">>
sDesk == <<"D", "e", "s", "k">>
sWirelessMouse == <<"W", "i", "r", "e", "l", "e", "s", "s", " ", "M", "o", "u", "s", "e">>
sNORTH == <<"N", "O", "R", "T", "H">>
sNorthLower == <<"n", "o", "r", "t", "h">>
sNortheast == <<"N", "o", "r", "t", "h", "e", "a", "s", "t">>
sEast == <<"E", "a", "s", "t">>
sSpaceNorth == <<" ">> \o sNorth

\* revenue by region: an amount of 1 beside one of 1.2e16
SalesPool ==
    {TxOf(<<sT1, sDay1, sP1, sUsbCable, sOne, price, sC1, region>>) :
        region \in {sNorth, sSouth}, price \in {sOne, sBig}}

\* revenue by customer
CustomerPool ==
    {TxOf(<<sT1, sDay1, sP1, sUsbCable, sOne, price, cid, sNorth>>) :
        cid \in {sC1, sC2}, price \in {sOne, sBig}}

\* revenue by day: a day's revenue may round to 0.00
DailyPool ==
    {TxOf(<<sT1, day, sP1, sUsbCable, sOne, price, sC1, sNorth>>) :
        day \in {sDay1, sDay2}, price \in {sTiny, sOne}}

\* quantities by product
ProductPool ==
    {TxOf(<<sT1, sDay1, sP1, name, qty, sPrice, sC1, sNorth>>) :
        name \in {sUsbCable, sWirelessMouse, sDesk}, qty \in {sOne, sTwo}}

\* the regions a file may spell
RegionPool ==
    {TxOf(<<sT1, sDay1, sP1, sUsbCable, sOne, sPrice, sC1, region>>) :
        region \in {sNorth, sNORTH, sNorthLower, sSpaceNorth, sNortheast, sSouth}}

sTen == <<"1", "0">>

\* products for the report: sold below and at the low-performing threshold,
\* matched and not matched by a keyword
ReportPool ==
    {TxOf(<<sT1, sDay1, sP1, name, qty, sPrice, sC1, sNorth>>) :
        name \in {sUsbCable, sDesk}, qty \in {sOne, sTen}}

nUsbMouse == <<"U", "S", "B", " ", "M", "o", "u", "s", "e">>
nChargerMouse == <<"C", "h", "a", "r", "g", "e", "r", " ", "M", "o", "u", "s", "e">>
nMonitorCharger == <<"M", "o", "n", "i", "t", "o", "r", " ", "C", "h", "a", "r", "g", "e", "r">>
nWebcamMonitor == <<"W", "e", "b", "c", "a", "m", " ", "M", "o", "n", "i", "t", "o", "r">>
nKeyboardWebcam == <<"K", "e", "y", "b", "o", "a", "r", "d", " ", "W", "e", "b", "c", "a", "m">>
nHeadphoneKeyboard == <<"H", "e", "a", "d", "p", "h", "o", "n", "e", " ", "K", "e", "y", "b", "o", "a", "r", "d">>
nHardDriveHeadphone == <<"H", "a", "r", "d", " ", "D", "r", "i", "v", "e", " ", "H", "e", "a", "d", "p", "h", "o", "n", "e">>
nLaptopHardDrive == <<"L", "a", "p", "t", "o", "p", " ", "H", "a", "r", "d", " ", "D", "r", "i", "v", "e">>
nLaptop == <<"L", "a", "p", "t", "o", "p">>
nHardware == <<"H", "a", "r", "d", "w", "a", "r", "e">>
nMonitor == <<"4", "K", " ", "M", "O", "N", "I", "T", "O", "R">>
nMousepad == <<"M", "o", "u", "s", "e", "p", "a", "d">>

ProductNames ==
    {sUsbCable, sWirelessMouse, sDesk, nUsbMouse, nChargerMouse, nMonitorCharger,
     nWebcamMonitor, nKeyboardWebcam, nHeadphoneKeyboard, nHardDriveHeadphone,
     nLaptopHardDrive, nLaptop, nHardware, nMonitor, nMousepad}

\* the product names a file may hold
EnrichPool ==
    {TxOf(<<sT1, sDay1, sP1, name, sOne, sPrice, sC1, sNorth>>) : name \in ProductNames}

MaxEnrichTx == 2

\* create_product_mapping: lower-cased title -> the attributes the API gave
EmptyMapping == <<>>
ApiMapping ==
    <<[key |-> Lower(sUsbCable),
       title |-> sUsbCable, category |-> "groceries", brand |-> "Acme", rating |-> Rating(100)],
      [key |-> Lower(sDesk),
       title |-> sDesk, category |-> "furniture", brand |-> "Acme", rating |-> Rating(450)]>>

ProductMappings == {EmptyMapping, ApiMapping}

\* the arguments the calls are made with
RegionArgs == {None, sNorth, sNorthLower, <<" ">> \o sNORTH \o <<" ">>, sSouth, sEast, <<>>}
TopArgs == {1, 2, 5}
ThresholdArgs == {1, 2, 3, 10}

Init ==
    /\ raw_lines = <<>>
    /\ entry_idx = 1
    /\ cleaned_data = <<>>
    /\ invalid_count = 0
    /\ parse_pc = "idle"
    /\ \/ transactions \in SeqsUpTo(SalesPool, MaxTx)
       \/ transactions \in SeqsUpTo(CustomerPool, MaxTx)
       \/ transactions \in SeqsUpTo(DailyPool, MaxTx)
       \/ transactions \in SeqsUpTo(ProductPool, MaxTx)
       \/ transactions \in SeqsUpTo(RegionPool, MaxTx)
       \/ transactions \in SeqsUpTo(ReportPool, MaxTx)
       \/ transactions \in SeqsUpTo(EnrichPool, MaxEnrichTx)
    /\ op = "none"
    /\ args = <<>>
    /\ ret = <<>>

(***************************************************************************)
(* The calls, in the order main() makes them.                              *)
(***************************************************************************)
CallFilter ==
    /\ op = "none"
    /\ \E region \in RegionArgs :
          /\ args' = [selected_region |-> region]
          /\ ret' = validate_and_filter_sales(transactions, region)
    /\ op' = "validate_and_filter_sales"
    /\ UNCHANGED <<transactions, parse_vars>>

CallRevenue ==
    /\ op = "validate_and_filter_sales"
    /\ args' = <<>>
    /\ ret' = calculate_total_revenue(transactions)
    /\ op' = "calculate_total_revenue"
    /\ UNCHANGED <<transactions, parse_vars>>

CallRegionWise ==
    /\ op = "calculate_total_revenue"
    /\ args' = <<>>
    /\ ret' = region_wise_sales(transactions)
    /\ op' = "region_wise_sales"
    /\ UNCHANGED <<transactions, parse_vars>>

CallTopSelling ==
    /\ op = "region_wise_sales"
    /\ \E n \in TopArgs :
          /\ args' = [n |-> n]
          /\ ret' = top_selling_products(transactions, n)
    /\ op' = "top_selling_products"
    /\ UNCHANGED <<transactions, parse_vars>>

CallCustomers ==
    /\ op = "top_selling_products"
    /\ args' = <<>>
    /\ ret' = customer_analysis(transactions)
    /\ op' = "customer_analysis"
    /\ UNCHANGED <<transactions, parse_vars>>

CallDailyTrend ==
    /\ op = "customer_analysis"
    /\ args' = <<>>
    /\ ret' = daily_sales_trend(transactions)
    /\ op' = "daily_sales_trend"
    /\ UNCHANGED <<transactions, parse_vars>>

CallPeakDay ==
    /\ op = "daily_sales_trend"
    /\ args' = <<>>
    /\ ret' = find_peak_sales_day(transactions)
    /\ op' = "find_peak_sales_day"
    /\ UNCHANGED <<transactions, parse_vars>>

CallLowPerforming ==
    /\ op = "find_peak_sales_day"
    /\ \E threshold \in ThresholdArgs :
          /\ args' = [threshold |-> threshold]
          /\ ret' = low_performing_products(transactions, threshold)
    /\ op' = "low_performing_products"
    /\ UNCHANGED <<transactions, parse_vars>>

CallEnrich ==
    /\ op = "low_performing_products"
    /\ \E product_mapping \in ProductMappings :
          /\ args' = [product_mapping |-> product_mapping]
          /\ ret' = enrich_sales_data(transactions, product_mapping)
          /\ transactions' = InputAfterEnrich(transactions, product_mapping)
    /\ op' = "enrich_sales_data"
    /\ UNCHANGED parse_vars

\* main() hands the report the list enrich_sales_data just returned
CallReport ==
    /\ op = "enrich_sales_data"
    /\ \E set_order \in Orderings(NotEnrichedNames(ret)) :
          /\ args' = [enriched_transactions |-> ret]
          /\ ret' = generate_sales_report(transactions, ret, set_order)
    /\ op' = "generate_sales_report"
    /\ UNCHANGED <<transactions, parse_vars>>

Next ==
    \/ CallFilter
    \/ CallRevenue
    \/ CallRegionWise
    \/ CallTopSelling
    \/ CallCustomers
    \/ CallDailyTrend
    \/ CallPeakDay
    \/ CallLowPerforming
    \/ CallEnrich
    \/ CallReport

Spec == Init /\ [][Next]_vars

(***************************************************************************)
(* Properties of parse_and_clean_data, stated over SpecParse.              *)
(***************************************************************************)
TransactionFields ==
    {"TransactionID", "Date", "ProductID", "ProductName", "Quantity", "UnitPrice",
     "CustomerID", "Region"}

\* C1: for every sequence of raw lines the call returns, and on return
\* len(cleaned) + invalid_count = len(raw_lines).
C1_CountsAddUp ==
    /\ parse_pc # "raised"
    /\ parse_pc = "returned" => Len(cleaned_data) + invalid_count = Len(raw_lines)

\* C2: no line makes the call raise: at every point of the loop each line
\* taken so far was either appended to cleaned_data or counted in invalid_count.
C2_NeverRaises ==
    /\ parse_pc \in {"loop", "returned"}
    /\ entry_idx - 1 = Len(cleaned_data) + invalid_count

\* the Transaction invariant of the data model
IsTransaction(t) ==
    /\ DOMAIN t = TransactionFields
    /\ t.TransactionID # <<>> /\ t.TransactionID[1] = "T"
    /\ t.ProductID # <<>> /\ t.ProductID[1] = "P"
    /\ t.Quantity \in Int /\ t.Quantity > 0
    /\ FGtZero(t.UnitPrice)
    /\ Strip(t.CustomerID) # <<>>
    /\ Strip(t.Region) # <<>>
    /\ ~Contains(<<",">>, t.ProductName)

\* the record was built from the fields of the line
IsFromLine(t, line) ==
    LET fields == Split(Strip(line), "|")
    IN  /\ Len(fields) = 8
        /\ t.TransactionID = fields[1]
        /\ t.Date = fields[2]
        /\ t.ProductID = fields[3]
        /\ t.CustomerID = fields[7]
        /\ t.Region = fields[8]

\* the records come from lines in the order of the lines
RECURSIVE Embeds(_, _)
Embeds(records, lines) ==
    IF records = <<>> THEN TRUE
    ELSE IF lines = <<>> THEN FALSE
    ELSE \/ IsFromLine(Head(records), Head(lines)) /\ Embeds(Tail(records), Tail(lines))
         \/ Embeds(records, Tail(lines))

\* C3: every record of the returned collection satisfies the Transaction
\* invariant, and the records keep the order of the lines they came from.
C3_CleanedAreTransactions ==
    parse_pc = "returned"
        => /\ \A i \in 1..Len(cleaned_data) : IsTransaction(cleaned_data[i])
           /\ Embeds(cleaned_data, raw_lines)

(***************************************************************************)
(* Properties of the report, the analytics, the enrichment and the filter, *)
(* stated over Spec.                                                       *)
(***************************************************************************)
ReportSections ==
    <<"HEADER", "OVERALL SUMMARY", "REGION-WISE PERFORMANCE", "TOP 5 PRODUCTS",
      "TOP 5 CUSTOMERS", "DAILY SALES TREND", "PRODUCT PERFORMANCE ANALYSIS",
      "API ENRICHMENT SUMMARY">>

\* C4: with zero cleaned records and zero enriched records
\* generate_sales_report does not raise and writes a document that holds
\* every section.
C4_EmptyReportIsWritten ==
    (op = "generate_sales_report" /\ transactions = <<>>
        /\ args.enriched_transactions = <<>>)
        => /\ ret.raised = ""
           /\ \A k \in 1..Len(ReportSections) :
                  \E i \in 1..Len(ret.document) :
                      ret.document[i].section = ReportSections[k]

RECURSIVE SumSeq(_)
SumSeq(ns) == IF ns = <<>> THEN 0 ELSE Head(ns) + SumSeq(Tail(ns))

\* sum(v["total_sales"] for v in regions), added in the order of the entries
RECURSIVE SalesFrom(_, _, _)
SalesFrom(regions, i, total) ==
    IF i > Len(regions) THEN total
    ELSE SalesFrom(regions, i + 1, FAdd(total, regions[i].total_sales))

SumOfSales(regions) == SalesFrom(regions, 1, FZero)
Counts(regions) == SumSeq([i \in 1..Len(regions) |-> regions[i].transaction_count])

\* one unit in the last place of a total, in units of 1/Unit; a total of the
\* model below 10^15 is below 2^17, where that unit is under 2^-35
Ulp(total) == IF total.hi = 0 THEN 0 ELSE Spacing(total.hi)

\* C5 as stated: calculate_total_revenue(transactions) equals the sum of
\* total_sales over the entries of region_wise_sales(transactions), and the
\* transaction_count values of the entries sum to len(transactions).
C5_TotalsEqual ==
    op = "region_wise_sales"
        => /\ calculate_total_revenue(transactions) = SumOfSales(ret)
           /\ Counts(ret) = Len(transactions)

\* C5 amended: the total and the sum of total_sales agree within floating
\* rounding, that is they differ by at most len(transactions) units in the
\* last place of the total, and the transaction_count values sum to
\* len(transactions) exactly.
C5_TotalsWithinRounding ==
    op = "region_wise_sales"
        => LET total == calculate_total_revenue(transactions)
               sales == SumOfSales(ret)
               slack == Len(transactions) * Ulp(total)
           IN  /\ total.kind = "finite" /\ sales.kind = "finite"
               /\ total.hi = sales.hi
               /\ sales.lo - total.lo \in (0 - slack)..slack
               /\ Counts(ret) = Len(transactions)

\* two regions are returned and the two sums were rounded differently
C5_Witness ==
    /\ op = "region_wise_sales"
    /\ Len(ret) >= 2
    /\ calculate_total_revenue(transactions) # SumOfSales(ret)

\* C6: for a non-empty collection find_peak_sales_day returns the
\* daily_sales_trend entry with the maximum revenue, the earliest date when
\* several share it; for an empty collection it returns (None, 0, 0).
C6_PeakIsMaximum ==
    op = "find_peak_sales_day"
        => LET daily == daily_sales_trend(transactions)
           IN  IF transactions = <<>> THEN ret = <<None, FZero, 0>>
               ELSE \E i \in 1..Len(daily) :
                       /\ ret = <<daily[i].key, daily[i].revenue,
                                  daily[i].transaction_count>>
                       /\ \A j \in 1..Len(daily) :
                              ~FLess(daily[i].revenue, daily[j].revenue)
                       /\ \A j \in 1..(i - 1) :
                              FLess(daily[j].revenue, daily[i].revenue)

\* C7: every product of low_performing_products has a total quantity
\* strictly below the threshold; no product that top_selling_products (with
\* n at least the number of distinct products) returns with a quantity at or
\* above the threshold is in the low-performing result; a product both
\* return has the same quantity and revenue in both.
C7_LowAndTopAgree ==
    op = "low_performing_products"
        => LET names == {transactions[i].ProductName : i \in 1..Len(transactions)}
           IN  /\ \A l \in 1..Len(ret) : ret[l][2] < args.threshold
               /\ \A n \in TopArgs :
                      LET top == top_selling_products(transactions, n)
                      IN  /\ n >= Cardinality(names)
                              => \A t \in 1..Len(top) :
                                     top[t][2] >= args.threshold
                                         => \A l \in 1..Len(ret) : ret[l][1] # top[t][1]
                          /\ \A t \in 1..Len(top) : \A l \in 1..Len(ret) :
                                 ret[l][1] = top[t][1] => ret[l] = top[t]

\* a product is low-performing, another reaches the threshold, and the top
\* selling list of all products holds both
C7_Witness ==
    /\ op = "low_performing_products"
    /\ ret # <<>>
    /\ LET top == top_selling_products(transactions, 5)
       IN  /\ \E t \in 1..Len(top) : top[t][2] >= args.threshold
           /\ \E t \in 1..Len(top) : \E l \in 1..Len(ret) : ret[l][1] = top[t][1]

\* the keyword rules in their order, with the attributes each gives
RuleTable ==
    <<[keywords |-> {kwUsb, kwCable}, category |-> "mobile-accessories",
       brand |-> "Beats", rating |-> Rating(424)],
      [keywords |-> {kwMouse}, category |-> "mobile-accessories",
       brand |-> "TechGear", rating |-> Rating(443)],
      [keywords |-> {kwCharger}, category |-> "mobile-accessories",
       brand |-> "GadgetMaster", rating |-> Rating(355)],
      [keywords |-> {kwMonitor}, category |-> "mobile-accessories",
       brand |-> "Apple", rating |-> Rating(415)],
      [keywords |-> {kwWebcam}, category |-> "mobile-accessories",
       brand |-> "Apple", rating |-> Rating(362)],
      [keywords |-> {kwKeyboard}, category |-> "mobile-accessories",
       brand |-> "Logitech", rating |-> Rating(405)],
      [keywords |-> {kwHeadphone}, category |-> "mobile-accessories",
       brand |-> "Sony", rating |-> Rating(438)],
      [keywords |-> {kwHardDrive}, category |-> "storage",
       brand |-> "Seagate", rating |-> Rating(418)],
      [keywords |-> {kwLaptop}, category |-> "laptops",
       brand |-> "Asus", rating |-> Rating(395)]>>

\* the rules whose keyword is a substring of the lower-cased product name
Hits(tx) ==
    LET name == Lower(tx.ProductName)
    IN  {k \in 1..Len(RuleTable) : \E kw \in RuleTable[k].keywords : Contains(kw, name)}

\* C8: every enriched record carries the attributes of the first rule, in
\* the order usb/cable, mouse, charger, monitor, webcam, keyboard, headphone,
\* hard drive, laptop, whose keyword its lower-cased product name contains,
\* with API_Match true; a name no rule matches gets Unknown, Unknown, 0.0 and
\* API_Match false; the catalog mapping makes no difference.
C8_FirstMatchingRule ==
    op = "enrich_sales_data"
        => /\ \A m \in ProductMappings : enrich_sales_data(transactions, m) = ret
           /\ \A i \in 1..Len(transactions) :
                  LET hits == Hits(transactions[i])
                      first == CHOOSE k \in hits : \A h \in hits : k <= h
                  IN  IF hits = {}
                      THEN /\ ret[i].API_Category = "Unknown"
                           /\ ret[i].API_Brand = "Unknown"
                           /\ ret[i].API_Rating = FZero
                           /\ ret[i].API_Match = FALSE
                      ELSE /\ ret[i].API_Category = RuleTable[first].category
                           /\ ret[i].API_Brand = RuleTable[first].brand
                           /\ ret[i].API_Rating = RuleTable[first].rating
                           /\ ret[i].API_Match = TRUE

\* one name holds the keywords of two rules, another holds none and is a
\* title of the catalog mapping handed in
C8_Witness ==
    /\ op = "enrich_sales_data"
    /\ \E i \in 1..Len(transactions) : Cardinality(Hits(transactions[i])) >= 2
    /\ \E i \in 1..Len(transactions) :
           /\ Hits(transactions[i]) = {}
           /\ HasKey(args.product_mapping, Lower(transactions[i].ProductName))

ApiFields == {"API_Category", "API_Brand", "API_Rating", "API_Match"}

\* C9: enrich_sales_data returns one record per input transaction in the
\* input order; each holds the eight Transaction fields unchanged and the
\* four API fields.
C9_EnrichOneToOne ==
    op = "enrich_sales_data"
        => /\ Len(ret) = Len(transactions)
           /\ \A i \in 1..Len(transactions) :
                  /\ DOMAIN ret[i] = TransactionFields \cup ApiFields
                  /\ \A f \in TransactionFields : ret[i][f] = transactions[i][f]

\* two different transactions were enriched, one of them matched by no rule
C9_Witness ==
    /\ op = "enrich_sales_data"
    /\ Len(transactions) = 2
    /\ transactions[1] # transactions[2]
    /\ \E i \in 1..2 : ~ret[i].API_Match
    /\ \E i \in 1..2 : ret[i].API_Match

\* C10: with a non-empty collection and a region string the call returns
\* exactly the records, in input order, whose Region equals the requested
\* region once both are trimmed and lower-cased, and the summary holds
\* filter_applied true, the trimmed lower-cased region key, and the lengths
\* of the input and of the output.
C10_FilterMatchesRegion ==
    (op = "validate_and_filter_sales" /\ transactions # <<>>
        /\ args.selected_region # None)
        => LET wanted == Lower(Strip(args.selected_region))
               matching == SelectSeq(transactions,
                                     LAMBDA row : Lower(Strip(row.Region)) = wanted)
           IN  ret = <<matching,
                       [filter_applied |-> TRUE, region |-> wanted,
                        records_before_filter |-> Len(transactions),
                        records_after_filter |-> Len(matching)]>>

\* a sequence with each run of equal neighbours kept once
RECURSIVE Runs(_)
Runs(s) ==
    IF Len(s) <= 1 THEN s
    ELSE IF s[1] = s[2] THEN Runs(Tail(s))
    ELSE <<s[1]>> \o Runs(Tail(s))

\* the kinds of the lines a document holds for a section, in order
KindsIn(document, section) ==
    LET lines == SelectSeq(document, LAMBDA l : l.section = section)
    IN  [i \in 1..Len(lines) |-> lines[i].kind]

\* the values of the lines of one kind, in order
ValuesOf(document, kind) ==
    LET lines == SelectSeq(document, LAMBDA l : l.kind = kind)
    IN  [i \in 1..Len(lines) |-> lines[i].values]

\* C11: for a non-empty collection with its enriched collection
\* generate_sales_report writes the sections in the fixed order, none left
\* out; the product performance section holds the peak-day line and then
\* either the list of low performers or the none-found line; the
\* enrichment summary ends with either the unmatched product names, each
\* once, or the all-enriched line.
C11_SectionsInOrder ==
    (op = "generate_sales_report" /\ transactions # <<>>)
        => /\ ret.raised = ""
           /\ Runs([i \in 1..Len(ret.document) |-> ret.document[i].section])
                  = ReportSections
           /\ LET kinds == KindsIn(ret.document, "PRODUCT PERFORMANCE ANALYSIS")
                  low == low_performing_products(transactions, 10)
              IN  /\ Len(kinds) >= 4
                  /\ SubSeq(kinds, 1, 3) = <<"title", "rule", "best_selling_day">>
                  /\ IF low = <<>>
                     THEN SubSeq(kinds, 4, Len(kinds)) = <<"no_low_performing">>
                     ELSE /\ SubSeq(kinds, 4, Len(kinds))
                                 = <<"low_performing">> \o [i \in 1..Len(low) |-> "low_item"]
                          /\ \A i \in 1..Len(low) :
                                 ValuesOf(ret.document, "low_item")[i][1] = low[i][1]
           /\ LET kinds == KindsIn(ret.document, "API ENRICHMENT SUMMARY")
                  enriched == args.enriched_transactions
                  unmatched == {enriched[i].ProductName :
                                   i \in {j \in 1..Len(enriched) : ~enriched[j].API_Match}}
                  listed == ValuesOf(ret.document, "not_enriched_item")
              IN  /\ Len(kinds) >= 5
                  /\ SubSeq(kinds, 1, 4)
                         = <<"title", "rule", "products_enriched", "success_rate">>
                  /\ IF unmatched = {}
                     THEN SubSeq(kinds, 5, Len(kinds)) = <<"all_enriched">>
                     ELSE /\ SubSeq(kinds, 5, Len(kinds))
                                 = <<"not_enriched">>
                                   \o [i \in 1..Cardinality(unmatched) |-> "not_enriched_item"]
                          /\ {listed[i][1] : i \in 1..Len(listed)} = unmatched

\* a report with the none-found line and with an unmatched name, held by
\* two records, listed once
C11_Witness ==
    /\ op = "generate_sales_report"
    /\ ret.raised = ""
    /\ \E i \in 1..Len(ret.document) : ret.document[i].kind = "no_low_performing"
    /\ Len(ValuesOf(ret.document, "not_enriched_item")) = 1
    /\ Cardinality({i \in 1..Len(transactions) :
                       ~args.enriched_transactions[i].API_Match}) >= 2

\* the place of the first transaction whose field holds the group key
FirstSeen(txs, field, key) ==
    CHOOSE i \in 1..Len(txs) :
        /\ txs[i][field] = key
        /\ \A j \in 1..(i - 1) : txs[j][field] # key

\* the distinct group keys of the transactions
GroupKeys(txs, field) == {txs[i][field] : i \in 1..Len(txs)}

\* groups[i] with sort key values[i]: the keys descend, and of two groups
\* with equal keys the one first encountered in txs comes first
InRankOrder(txs, field, groups, values, Greater(_, _)) ==
    \A i, j \in 1..Len(groups) :
        i < j => \/ Greater(values[i], values[j])
                 \/ /\ ~Greater(values[j], values[i])
                    /\ FirstSeen(txs, field, groups[i]) < FirstSeen(txs, field, groups[j])

FloatGreater(a, b) == FLess(b, a)
IntGreater(a, b) == a > b

\* the total quantity sold of a product
TotalQuantity(txs, name) ==
    SumSeq([i \in 1..Len(txs) |->
               IF txs[i].ProductName = name THEN txs[i].Quantity ELSE 0])

\* C12: region_wise_sales is ordered by total_sales descending,
\* top_selling_products by total quantity descending and cut to the first n,
\* customer_analysis by total_spent descending; in each, groups with equal
\* keys keep the order in which their group key was first encountered.
C12_RankedStable ==
    /\ op = "region_wise_sales"
           => /\ Len(ret) = Cardinality(GroupKeys(transactions, "Region"))
              /\ InRankOrder(transactions, "Region",
                             [i \in 1..Len(ret) |-> ret[i].key],
                             [i \in 1..Len(ret) |-> ret[i].total_sales], FloatGreater)
    /\ op = "customer_analysis"
           => /\ Len(ret) = Cardinality(GroupKeys(transactions, "CustomerID"))
              /\ InRankOrder(transactions, "CustomerID",
                             [i \in 1..Len(ret) |-> ret[i].key],
                             [i \in 1..Len(ret) |-> ret[i].total_spent], FloatGreater)
    /\ op = "top_selling_products"
           => LET names == GroupKeys(transactions, "ProductName")
                  kept == {ret[i][1] : i \in 1..Len(ret)}
              IN  /\ Len(ret) = Min(args.n, Cardinality(names))
                  /\ kept \subseteq names
                  /\ \A i \in 1..Len(ret) :
                         ret[i][2] = TotalQuantity(transactions, ret[i][1])
                  /\ InRankOrder(transactions, "ProductName",
                                 [i \in 1..Len(ret) |-> ret[i][1]],
                                 [i \in 1..Len(ret) |-> ret[i][2]], IntGreater)
                  /\ \A name \in names \ kept : \A i \in 1..Len(ret) :
                         InRankOrder(transactions, "ProductName",
                                     <<ret[i][1], name>>,
                                     <<ret[i][2], TotalQuantity(transactions, name)>>,
                                     IntGreater)

\* three products sold in equal quantity, of which the first two are kept
C12_Witness ==
    /\ op = "top_selling_products"
    /\ args.n = 2
    /\ Cardinality(GroupKeys(transactions, "ProductName")) = 3
    /\ Len(ret) = 2
    /\ ret[1][2] = ret[2][2]

\* the call whose result the state holds, made again on the collection as
\* the call left it, returns that result (the names not enriched are
\* written in the order of a set)
SameResultAgain ==
    /\ op = "validate_and_filter_sales"
           => ret = validate_and_filter_sales(transactions, args.selected_region)
    /\ op = "calculate_total_revenue" => ret = calculate_total_revenue(transactions)
    /\ op = "region_wise_sales" => ret = region_wise_sales(transactions)
    /\ op = "top_selling_products" => ret = top_selling_products(transactions, args.n)
    /\ op = "customer_analysis" => ret = customer_analysis(transactions)
    /\ op = "daily_sales_trend" => ret = daily_sales_trend(transactions)
    /\ op = "find_peak_sales_day" => ret = find_peak_sales_day(transactions)
    /\ op = "low_performing_products"
           => ret = low_performing_products(transactions, args.threshold)
    /\ op = "enrich_sales_data"
           => ret = enrich_sales_data(transactions, args.product_mapping)
    /\ op = "generate_sales_report"
           => \E set_order \in Orderings(NotEnrichedNames(args.enriched_transactions)) :
                  ret = generate_sales_report(transactions, args.enriched_transactions,
                                              set_order)

=============================================================================
